---------------------------- MODULE Spec2Model ----------------------------
(***************************************************************************)
(* gitdu: pack usage of a git repository per directory or per extension.   *)
(* The model follows src/gitdu.py: parse_git_verify_pack, update_entries,  *)
(* the filter/scope set-up of main, make_dir_entries and                   *)
(* make_file_extension_entries.  A path is a sequence of one-character     *)
(* strings; os.path.dirname and os.path.splitext are modelled character by *)
(* character as posixpath computes them.                                   *)
(***************************************************************************)
EXTENDS Integers, Sequences, FiniteSets, TLC

\* Longest path string of the traversal report that is enumerated.
MaxPathLen == 3

\* Cap on a node's update counter: it only stops a walk that never ends.
MaxUpdates == 3

\* Python's None for Entry.path: no element of it is a path character.
None == <<"None">>

\* Python's None where a sha1 is expected (the optional base sha1 group of the
\* regex, Entry.base_entry); the optional depth group is -1 when it is None.
NoSha == "None"

Shas == {"s1", "s2"}

\* A sha1 that a delta line may name although no line of the report has it.
ForeignSha == "s9"

Types == {"blob", "tree", "commit"}

\* (size, pack_size) pairs a report line may carry.
SizePairs == {<<0, 1>>, <<2, 3>>}

DirAlphabet == {"a", "/"}

ExtAlphabet == {"a", ".", "/"}

Strings(alphabet, n) == UNION {[1..k -> alphabet] : k \in 0..n}

DirPaths == Strings(DirAlphabet, MaxPathLen)

ExtPaths == Strings(ExtAlphabet, MaxPathLen)

-----------------------------------------------------------------------------
(* String primitives of Python that the code relies on. *)

\* str.rfind(c) + 1: the 1-based index of the last c in p, 0 when there is none.
RFind(p, c) ==
    LET hits == {i \in 1..Len(p) : p[i] = c}
    IN IF hits = {} THEN 0 ELSE CHOOSE i \in hits : \A j \in hits : j <= i

\* str.startswith
StartsWith(p, pre) ==
    /\ Len(pre) <= Len(p)
    /\ SubSeq(p, 1, Len(pre)) = pre

\* str.rstrip('/')
RECURSIVE RStripSlash(_)
RStripSlash(p) ==
    IF p # <<>> /\ p[Len(p)] = "/" THEN RStripSlash(SubSeq(p, 1, Len(p) - 1)) ELSE p

AllSlashes(p) == \A i \in 1..Len(p) : p[i] = "/"

\* ord() of the characters in use, for the orderings of sorted().
Ord(c) == CASE c = "." -> 46 [] c = "/" -> 47 [] c = "a" -> 97 [] OTHER -> 0

\* p < q on Python strings.
StrLess(p, q) ==
    \/ /\ Len(p) < Len(q)
       /\ SubSeq(q, 1, Len(p)) = p
    \/ \E i \in 1..Len(p) :
          /\ i <= Len(q)
          /\ SubSeq(p, 1, i - 1) = SubSeq(q, 1, i - 1)
          /\ Ord(p[i]) < Ord(q[i])

\* posixpath.dirname(p)
Dirname(p) ==
    LET i == RFind(p, "/")
        head == SubSeq(p, 1, i)
    IN IF head # <<>> /\ ~AllSlashes(head) THEN RStripSlash(head) ELSE head

\* Mutant of Splitext1: the last dot of the whole path, whatever component it is
\* in and whatever precedes it.
Splitext1_WholePath(p) ==
    LET dotIndex == RFind(p, ".")
    IN IF dotIndex > 0 THEN SubSeq(p, dotIndex, Len(p)) ELSE <<>>

\* posixpath.splitext(p)[1]: the extension starts at the last dot of the last
\* component, and leading dots of that component are not an extension.
Splitext1(p) ==
    LET sepIndex == RFind(p, "/")
        dotIndex == RFind(p, ".")
    IN IF /\ dotIndex > sepIndex
          /\ \E k \in (sepIndex + 1)..(dotIndex - 1) : p[k] # "."
       THEN SubSeq(p, dotIndex, Len(p))
       ELSE <<>>

-----------------------------------------------------------------------------
VARIABLES
    pc,             \* where main is: parse, rev_list, dir, walk, ext, dir_done, ext_done, KeyError
    entries,        \* sha1 -> Entry (parse_git_verify_pack's dictionary)
    ignored_paths,  \* main's ignored_paths set
    scope,          \* main's path (the scope prefix)
    todo,           \* sha1s the running aggregation loop has not visited yet
    cur,            \* sha1 of the entry the directory loop is folding
    walk_path,      \* make_dir_entries' local variable path
    dir_entries,    \* path -> DirEntry
    result          \* the list an aggregation returned

vars == <<pc, entries, ignored_paths, scope, todo, cur, walk_path,
          dir_entries, result>>

\* An empty dict.
EmptyMap == [k \in {} |-> k]

\* Entry.__init__ on the groups of a matching line.
Entry(index_parts) ==
    [sha1 |-> index_parts[1],
     type |-> index_parts[2],
     size |-> index_parts[3],
     pack_size |-> index_parts[4],
     offset |-> index_parts[5],
     depth |-> IF index_parts[6] >= 0 THEN index_parts[6] ELSE 0,
     base_sha1 |-> index_parts[7],
     path |-> None,
     base_entry |-> NoSha]

Init ==
    /\ pc = "parse"
    /\ entries = EmptyMap
    /\ ignored_paths = {}
    /\ scope = <<>>
    /\ todo = {}
    /\ cur = NoSha
    /\ walk_path = <<>>
    /\ dir_entries = EmptyMap
    /\ result = <<>>

\* One matching line of the report: entries[m.group(1)] = Entry(m.groups()).
ParseLine(index_parts) ==
    /\ pc = "parse"
    /\ entries' = [s \in DOMAIN entries \cup {index_parts[1]} |->
                      IF s = index_parts[1] THEN Entry(index_parts) ELSE entries[s]]
    /\ UNCHANGED <<pc, ignored_paths, scope, todo, cur, walk_path, dir_entries, result>>

\* The second loop of parse_git_verify_pack: entries[entry.base_sha1] raises
\* KeyError when the base is no key of the dictionary.
ResolveBases ==
    /\ pc = "parse"
    /\ IF \E s \in DOMAIN entries :
             entries[s].base_sha1 # NoSha /\ entries[s].base_sha1 \notin DOMAIN entries
       THEN /\ pc' = "KeyError"
            /\ UNCHANGED entries
       ELSE /\ pc' = "rev_list"
            /\ entries' = [s \in DOMAIN entries |->
                              IF entries[s].base_sha1 # NoSha
                              THEN [entries[s] EXCEPT !.base_entry = entries[s].base_sha1]
                              ELSE entries[s]]
    /\ UNCHANGED <<ignored_paths, scope, todo, cur, walk_path, dir_entries, result>>

\* One non-blank line of the traversal report: parts = line.split(maxsplit=1);
\* a line that is a sha1 only gives the empty path; a sha1 that is no key of
\* entries is only reported.
UpdateLine(parts) ==
    /\ pc = "rev_list"
    /\ IF parts[1] \in DOMAIN entries
       THEN entries' = [entries EXCEPT ![parts[1]].path =
                           IF Len(parts) = 2 THEN parts[2] ELSE <<>>]
       ELSE UNCHANGED entries
    /\ UNCHANGED <<pc, ignored_paths, scope, todo, cur, walk_path,
                   dir_entries, result>>

\* main's reading of one line of the filter file: blank lines are skipped and a
\* leading "./" is removed.  The result is a set of zero or one path.
FilterLine(line) ==
    IF line = <<>> THEN {}
    ELSE IF StartsWith(line, <<".", "/">>) THEN {SubSeq(line, 3, Len(line))}
    ELSE {line}

\* main's clean-up of the scope path: one leading "." and then one leading "/"
\* are removed.
ScopePath(path) ==
    LET p1 == IF StartsWith(path, <<".">>) THEN SubSeq(path, 2, Len(path)) ELSE path
    IN IF StartsWith(p1, <<"/">>) THEN SubSeq(p1, 2, Len(p1)) ELSE p1

\* main from the end of update_entries to the call of an aggregation: the
\* filter file is read, the scope path is computed and args.extensions selects
\* the aggregation.
Main(filter_lines, path, extensions) ==
    /\ pc = "rev_list"
    /\ ignored_paths' = UNION {FilterLine(l) : l \in filter_lines}
    /\ scope' = ScopePath(path)
    /\ todo' = IF extensions THEN {} ELSE DOMAIN entries
    /\ pc' = IF extensions THEN "ext" ELSE "dir"
    /\ dir_entries' = EmptyMap
    /\ UNCHANGED <<entries, cur, walk_path, result>>

-----------------------------------------------------------------------------
(* Directory aggregation *)

\* DirEntry.__init__
DirEntry(path, entry_type) ==
    [path |-> path, type |-> entry_type, size |-> 0, pack_size |-> 0, updates |-> 0,
     acc_size |-> 0, acc_pack_size |-> 0, acc_updates |-> 0]

\* dir_entries.get(path), and a new DirEntry stored under path when there is none.
GetOrCreate(d, path, entry_type) ==
    IF path \in DOMAIN d THEN d
    ELSE [p \in DOMAIN d \cup {path} |->
             IF p = path THEN DirEntry(path, entry_type) ELSE d[p]]

\* Mutant of update_size: the direct totals only.
update_size_DirectOnly(e, size, pack_size) ==
    [e EXCEPT !.size = @ + size,
              !.pack_size = @ + pack_size,
              !.updates = @ + 1]

\* DirEntry.update_size
update_size(e, size, pack_size) ==
    [e EXCEPT !.size = @ + size,
              !.pack_size = @ + pack_size,
              !.updates = @ + 1,
              !.acc_size = @ + size,
              !.acc_pack_size = @ + pack_size,
              !.acc_updates = @ + 1]

\* Mutant of update_acc_size: the stored size is not accumulated.
update_acc_size_NoPack(e, size, pack_size) ==
    [e EXCEPT !.acc_size = @ + size,
              !.acc_updates = @ + 1]

\* DirEntry.update_acc_size
update_acc_size(e, size, pack_size) ==
    [e EXCEPT !.acc_size = @ + size,
              !.acc_pack_size = @ + pack_size,
              !.acc_updates = @ + 1]

\* Mutant of DirFolds: the ignored set is not consulted.
DirFolds_NoIgnore(entry) ==
    /\ entry.path # None
    /\ entry.type \in {"blob", "tree"}

\* The tests of make_dir_entries that let an entry through to the fold.
DirFolds(entry) ==
    /\ entry.path # None
    /\ entry.type \in {"blob", "tree"}
    /\ entry.path \notin ignored_paths

\* One iteration of the for loop of make_dir_entries, up to the while loop.
DirFold(s) ==
    /\ pc = "dir"
    /\ s \in todo
    /\ todo' = todo \ {s}
    /\ cur' = s
    /\ LET entry == entries[s]
       IN IF DirFolds(entry)
          THEN LET d == GetOrCreate(dir_entries, entry.path, entry.type)
               IN /\ dir_entries' = [d EXCEPT ![entry.path] =
                                        update_size(@, entry.size, entry.pack_size)]
                  /\ walk_path' = entry.path
                  /\ pc' = IF entry.path # <<>> THEN "walk" ELSE "dir"
          ELSE UNCHANGED <<dir_entries, walk_path, pc>>
    /\ UNCHANGED <<entries, ignored_paths, scope, result>>

\* Mutant of WalkStep: an if in the place of the while, so that only the first
\* parent is visited.
WalkStep_Once ==
    /\ pc = "walk"
    /\ LET path == Dirname(walk_path)
           entry == entries[cur]
           d == GetOrCreate(dir_entries, path, "tree")
       IN /\ d[path].acc_updates < MaxUpdates
          /\ walk_path' = path
          /\ dir_entries' = [d EXCEPT ![path] =
                                update_acc_size(@, entry.size, entry.pack_size)]
          /\ pc' = "dir"
    /\ UNCHANGED <<entries, ignored_paths, scope, todo, cur, result>>

\* One iteration of the while loop: path = os.path.dirname(path), find or create
\* the parent and add the entry's sizes to its accumulated totals.
WalkStep ==
    /\ pc = "walk"
    /\ LET path == Dirname(walk_path)
           entry == entries[cur]
           d == GetOrCreate(dir_entries, path, "tree")
       IN /\ d[path].acc_updates < MaxUpdates
          /\ walk_path' = path
          /\ dir_entries' = [d EXCEPT ![path] =
                                update_acc_size(@, entry.size, entry.pack_size)]
          /\ pc' = IF path # <<>> THEN "walk" ELSE "dir"
    /\ UNCHANGED <<entries, ignored_paths, scope, todo, cur, result>>

\* sorted(values, key=lambda e: e.path); the paths of a dict are distinct.
RECURSIVE SortedByPath(_)
SortedByPath(nodes) ==
    IF nodes = {} THEN <<>>
    ELSE LET first == CHOOSE n \in nodes :
                         \A m \in nodes \ {n} : StrLess(n.path, m.path)
         IN <<first>> \o SortedByPath(nodes \ {first})

\* The return of make_dir_entries.
DirReturn ==
    /\ pc = "dir"
    /\ todo = {}
    /\ result' = SortedByPath({dir_entries[p] : p \in DOMAIN dir_entries})
    /\ pc' = "dir_done"
    /\ UNCHANGED <<entries, ignored_paths, scope, todo, cur, walk_path,
                   dir_entries>>

-----------------------------------------------------------------------------
(* Extension aggregation *)

\* ExtensionEntry.__init__
ExtensionEntry(extension) ==
    [extension |-> extension, files |-> {}, acc_size |-> 0, acc_pack_size |-> 0,
     acc_updates |-> 0]

\* Mutant of ExtUpdateSize: a path already in files is not counted again.
ExtUpdateSize_NewOnly(e, path, size, pack_size) ==
    IF path \in e.files THEN e
    ELSE [e EXCEPT !.files = @ \cup {path},
                   !.acc_size = @ + size,
                   !.acc_pack_size = @ + pack_size,
                   !.acc_updates = @ + 1]

\* ExtensionEntry.update_size
ExtUpdateSize(e, path, size, pack_size) ==
    [e EXCEPT !.files = @ \cup {path},
              !.acc_size = @ + size,
              !.acc_pack_size = @ + pack_size,
              !.acc_updates = @ + 1]

\* The scope test of make_file_extension_entries on entry.path.
ExtInScope(entry_path, path) ==
    \/ path = <<>>
    \/ /\ StartsWith(entry_path, path)
       /\ entry_path = path \/ entry_path[Len(path) + 1] = "/"

\* The tests of make_file_extension_entries that let an entry through.
ExtFolds(entry, path, ignored) ==
    /\ entry.path # None
    /\ entry.type = "blob"
    /\ ExtInScope(entry.path, path)
    /\ entry.path \notin ignored

\* The end of the loop body: the bucket of the entry's extension is found or
\* appended (a dict keeps insertion order) and updated.
ExtFold(ext_entries, entry) ==
    LET ext == Splitext1(entry.path)
        at == {i \in 1..Len(ext_entries) : ext_entries[i].extension = ext}
        e == IF at = {} THEN Append(ext_entries, ExtensionEntry(ext)) ELSE ext_entries
        i == IF at = {} THEN Len(e) ELSE CHOOSE j \in at : TRUE
    IN [e EXCEPT ![i] = ExtUpdateSize(@, entry.path, entry.size, entry.pack_size)]

\* The for loop of make_file_extension_entries over the entries in order.
RECURSIVE ExtLoop(_, _, _, _, _)
ExtLoop(es, order, path, ignored, ext_entries) ==
    IF order = <<>> THEN ext_entries
    ELSE LET entry == es[Head(order)]
         IN ExtLoop(es, Tail(order), path, ignored,
                    IF ExtFolds(entry, path, ignored)
                    THEN ExtFold(ext_entries, entry)
                    ELSE ext_entries)

\* sorted(values, key=lambda e: e.acc_pack_size): a stable sort.
RECURSIVE SortedByPackSize(_)
SortedByPackSize(seq) ==
    IF seq = <<>> THEN <<>>
    ELSE LET i == CHOOSE j \in 1..Len(seq) :
                     /\ \A k \in 1..Len(seq) : seq[j].acc_pack_size <= seq[k].acc_pack_size
                     /\ \A k \in 1..(j - 1) : seq[k].acc_pack_size > seq[j].acc_pack_size
         IN <<seq[i]>> \o SortedByPackSize(SubSeq(seq, 1, i - 1) \o SubSeq(seq, i + 1, Len(seq)))

\* The orders in which a dict with these keys may have been filled.
Orders(keys) ==
    {o \in [1..Cardinality(keys) -> keys] : \A i, j \in DOMAIN o : i # j => o[i] # o[j]}

\* make_file_extension_entries(entries, path, ignored_paths), the entries
\* visited in the dictionary's order.
MakeFileExtensionEntries(order) ==
    /\ pc = "ext"
    /\ result' = SortedByPackSize(ExtLoop(entries, order, scope, ignored_paths, <<>>))
    /\ pc' = "ext_done"
    /\ UNCHANGED <<entries, ignored_paths, scope, todo, cur, walk_path, dir_entries>>

-----------------------------------------------------------------------------
(* Specifications *)

\* The groups of a matching line that is no delta (the offset column, which no
\* aggregation reads, is 12 in every line).
PlainLines(types, sizes) ==
    {<<s, t, sp[1], sp[2], 12, -1, NoSha>> : s \in Shas, t \in types, sp \in sizes}

\* The groups of a matching delta line: a depth and a base sha1.
DeltaLines(types, sizes) ==
    {<<s, t, sp[1], sp[2], 12, 1, b>> :
        s \in Shas, t \in types, sp \in sizes, b \in Shas \cup {ForeignSha}}

\* The split of a traversal line: a sha1, and a path unless the line ends there.
\* git rev-list names an object once, so a line names a sha1 whose entry has no
\* path yet, or an object that is in no pack.
RevListParts(paths) ==
    LET fresh == {s \in Shas : s \in DOMAIN entries => entries[s].path = None}
    IN {<<s>> : s \in fresh} \cup {<<s, p>> : s \in fresh, p \in paths \ {<<>>}}
          \cup {<<ForeignSha>>, <<ForeignSha, "a">>}

\* The paths the entries carry.
EntryPaths == {entries[s].path : s \in DOMAIN entries} \ {None}

\* Filter files worth reading: lines that name a path of an entry, as such or
\* with a leading "./" (a line naming no entry's path ignores nothing).
FilterFiles == SUBSET (EntryPaths \cup {<<".", "/">> \o p : p \in EntryPaths})

\* The scope path before main's clean-up: run from the top level ("."), or
\* from or with the directory a.
ScopeArgs == {<<".">>, <<".", "/", "a">>}

Parse(types, sizes) == \E l \in PlainLines(types, sizes) : ParseLine(l)

ParseDelta(types, sizes) == \E l \in DeltaLines(types, sizes) : ParseLine(l)

Resolve(paths) == \E parts \in RevListParts(paths) : UpdateLine(parts)

MainDir == \E f \in FilterFiles : Main(f, <<".">>, FALSE)

MainExt(args) == \E f \in FilterFiles, path \in args : Main(f, path, TRUE)

Fold == \E s \in Shas : DirFold(s)

ExtRun == \E order \in Orders(DOMAIN entries) : MakeFileExtensionEntries(order)

\* The whole program on paths over DirAlphabet.
Next ==
    \/ Parse(Types, SizePairs)
    \/ ResolveBases
    \/ Resolve(DirPaths)
    \/ MainDir
    \/ MainExt({<<".">>})
    \/ Fold
    \/ WalkStep
    \/ DirReturn
    \/ ExtRun

Spec == Init /\ [][Next]_vars

\* The extension report on paths over ExtAlphabet.
NextExt ==
    \/ Parse({"blob", "tree"}, {<<2, 3>>})
    \/ ResolveBases
    \/ Resolve(ExtPaths)
    \/ MainExt(ScopeArgs)
    \/ ExtRun

SpecExt == Init /\ [][NextExt]_vars

\* parse_git_verify_pack alone, on reports with delta lines.
NextParse ==
    \/ Parse(Types, SizePairs)
    \/ ParseDelta(Types, SizePairs)
    \/ ResolveBases

SpecParse == Init /\ [][NextParse]_vars

-----------------------------------------------------------------------------
(* Vocabulary of the properties, stated on path strings and on the records   *)
(* and independent of the walk that the code performs.                       *)

\* p is a proper ancestor of q: p is the empty root and q is not, or q
\* continues p with a "/" and p ends a component (it does not end with "/").
IsProperAncestor(p, q) ==
    /\ q # <<>>
    /\ \/ p = <<>>
       \/ /\ Len(p) < Len(q)
          /\ SubSeq(q, 1, Len(p)) = p
          /\ q[Len(p) + 1] = "/"
          /\ p[Len(p)] # "/"

ProperAncestors(q) ==
    {SubSeq(q, 1, k) : k \in {j \in 0..Len(q) : IsProperAncestor(SubSeq(q, 1, j), q)}}

\* p is the parent of q: the longest proper ancestor of q.
IsParent(p, q) ==
    /\ IsProperAncestor(p, q)
    /\ \A k \in ProperAncestors(q) : Len(k) <= Len(p)

\* The records that directory aggregation counts: blob or tree, path resolved,
\* path not ignored.
Eligible ==
    {s \in DOMAIN entries :
        /\ entries[s].type \in {"blob", "tree"}
        /\ entries[s].path # None
        /\ entries[s].path \notin ignored_paths}

\* The eligible records at exactly path p, and those at or below p.
At(p) == {s \in Eligible : entries[s].path = p}

AtOrBelow(p) ==
    {s \in Eligible : entries[s].path = p \/ IsProperAncestor(p, entries[s].path)}

RECURSIVE SumField(_, _)
SumField(S, f) ==
    IF S = {} THEN 0
    ELSE LET s == CHOOSE x \in S : TRUE
         IN entries[s][f] + SumField(S \ {s}, f)

RECURSIVE SumAccPackSize(_)
SumAccPackSize(nodes) ==
    IF nodes = {} THEN 0
    ELSE LET n == CHOOSE x \in nodes : TRUE
         IN n.acc_pack_size + SumAccPackSize(nodes \ {n})

\* The nodes make_dir_entries returned.
Nodes == {result[i] : i \in 1..Len(result)}

NodePaths == {n.path : n \in Nodes}

Descendants(n) == {m \in Nodes : IsProperAncestor(n.path, m.path)}

Children(n) == {m \in Nodes : IsParent(n.path, m.path)}

-----------------------------------------------------------------------------
\* C1: when make_dir_entries has returned, every node's direct size, stored
\* size and update count are the sums and the count over the eligible records
\* at exactly its path, its accumulated ones are those over the eligible records
\* at or below its path, whatever the order of the records; the root's
\* accumulated update count is the number of eligible records.
C1_NodeTotals ==
    pc = "dir_done" =>
        /\ \A n \in Nodes :
              /\ n.size = SumField(At(n.path), "size")
              /\ n.pack_size = SumField(At(n.path), "pack_size")
              /\ n.updates = Cardinality(At(n.path))
              /\ n.acc_size = SumField(AtOrBelow(n.path), "size")
              /\ n.acc_pack_size = SumField(AtOrBelow(n.path), "pack_size")
              /\ n.acc_updates = Cardinality(AtOrBelow(n.path))
        /\ \A n \in Nodes : n.path = <<>> => n.acc_updates = Cardinality(Eligible)
        /\ Cardinality(Nodes) = Cardinality(NodePaths)

\* Two eligible records below a directory that has no record of its own, next
\* to nothing else: the directory node holds both in its accumulated totals.
C1_Witness ==
    /\ pc = "dir_done"
    /\ Cardinality(Eligible) = 2
    /\ \E n \in Nodes : n.path # <<>> /\ n.updates = 0 /\ n.acc_updates = 2 /\ n.acc_size = 2

\* A record that C2 is about: its path is absent or ignored.
Excluded(s) == entries[s].path = None \/ entries[s].path \in ignored_paths

\* C2: a record whose path is absent or ignored contributes to no node and no
\* bucket: the iteration of make_dir_entries that visits it leaves dir_entries
\* as it was, the list make_file_extension_entries returns is the one it
\* returns with these records removed, and when every blob or tree record is
\* such a record make_dir_entries returns no node at all.
C2_ExcludedContributeNothing ==
    /\ [][(/\ pc = "dir"
           /\ todo' # todo
           /\ \A s \in todo \ todo' : Excluded(s))
              => (dir_entries' = dir_entries /\ pc' = "dir")]_vars
    /\ [](pc = "ext_done" =>
             \E order \in Orders({s \in DOMAIN entries : ~Excluded(s)}) :
                 result = SortedByPackSize(
                              ExtLoop(entries, order, scope, ignored_paths, <<>>)))
    /\ [](pc = "dir_done" /\ Eligible = {} => result = <<>>)

\* One blob with an ignored path and one with no path: no node is returned.
C2_Witness ==
    /\ pc = "dir_done"
    /\ result = <<>>
    /\ \E s \in DOMAIN entries :
          entries[s].type = "blob" /\ entries[s].path \in ignored_paths
    /\ \E s \in DOMAIN entries :
          entries[s].type = "blob" /\ entries[s].path = None

\* C5: between two records of make_dir_entries and when it returns, every
\* proper ancestor of the path of a node is the path of a node.
C5_AncestorClosure ==
    pc \in {"dir", "dir_done"} =>
        \A p \in DOMAIN dir_entries : ProperAncestors(p) \subseteq DOMAIN dir_entries

\* In the middle of the loop a node stands below a directory that no record
\* maps to.
C5_Witness ==
    /\ pc = "dir"
    /\ todo # {}
    /\ \E p \in DOMAIN dir_entries :
          \E q \in ProperAncestors(p) : q # <<>> /\ dir_entries[q].updates = 0

\* C6 as stated: each accumulated total is at least the direct one and equals
\* it exactly when the node has no descendant.
C6_EqualIffNoDescendants ==
    pc = "dir_done" =>
        \A n \in Nodes :
            /\ n.acc_size >= n.size
            /\ n.acc_pack_size >= n.pack_size
            /\ n.acc_updates >= n.updates
            /\ (n.acc_size = n.size) <=> (Descendants(n) = {})
            /\ (n.acc_pack_size = n.pack_size) <=> (Descendants(n) = {})
            /\ (n.acc_updates = n.updates) <=> (Descendants(n) = {})

\* The sizes of the eligible records strictly below p.
SizeBelow(p, f) == SumField(AtOrBelow(p) \ At(p), f)

\* C6 as amended: each accumulated total is at least the direct one; a node
\* without descendants has the three pairs equal; a node with descendants has
\* a larger accumulated update count, and an accumulated size (stored size)
\* equal to the direct one exactly when the records below it have total size
\* (stored size) zero.
C6_AccumulatedAtLeastDirect ==
    pc = "dir_done" =>
        \A n \in Nodes :
            /\ n.acc_size >= n.size
            /\ n.acc_pack_size >= n.pack_size
            /\ n.acc_updates >= n.updates
            /\ (n.acc_updates = n.updates) <=> (Descendants(n) = {})
            /\ Descendants(n) = {} =>
                  n.acc_size = n.size /\ n.acc_pack_size = n.pack_size
            /\ Descendants(n) # {} =>
                  /\ (n.acc_size = n.size) <=> (SizeBelow(n.path, "size") = 0)
                  /\ (n.acc_pack_size = n.pack_size)
                         <=> (SizeBelow(n.path, "pack_size") = 0)

\* A directory with a record of its own and an empty file below it: the size
\* totals are equal although the node has a descendant.
C6_Witness ==
    /\ pc = "dir_done"
    /\ \E n \in Nodes :
          /\ Descendants(n) # {}
          /\ n.updates > 0
          /\ n.acc_size = n.size
          /\ n.acc_updates > n.updates

\* C7 as stated: a node with children has the sum of its children's
\* accumulated stored sizes as its accumulated stored size.
C7_SumOfChildren ==
    pc = "dir_done" =>
        \A n \in Nodes :
            Children(n) # {} => n.acc_pack_size = SumAccPackSize(Children(n))

\* C7 as amended: every node's accumulated stored size is its direct stored
\* size plus the sum of its children's accumulated stored sizes.
C7_DirectPlusChildren ==
    pc = "dir_done" =>
        \A n \in Nodes :
            n.acc_pack_size = n.pack_size + SumAccPackSize(Children(n))

\* A directory below the root with a record of its own and a child.
C7_Witness ==
    /\ pc = "dir_done"
    /\ \E n \in Nodes : n.path # <<>> /\ n.pack_size > 0 /\ Children(n) # {}

\* Whether repeated os.path.dirname reaches the empty path from p within n
\* steps.  dirname returns a prefix of its argument, so a walk that ends at all
\* ends within Len(p) steps.
RECURSIVE ReachesRoot(_, _)
ReachesRoot(p, n) ==
    IF p = <<>> THEN TRUE
    ELSE IF n = 0 THEN FALSE
    ELSE ReachesRoot(Dirname(p), n - 1)

\* C8: the ancestor walk of make_dir_entries reaches the empty root after
\* finitely many steps, for every path a record may carry.
C8_WalkReachesRoot ==
    pc = "walk" => ReachesRoot(walk_path, Len(walk_path))

\* C10 as stated: after parsing, path resolution and directory aggregation,
\* every record of any kind with a resolved, non-ignored path has a node at
\* its path with direct and accumulated size at least its size, and every
\* proper ancestor of its path has accumulated size at least its size.
C10_EveryResolvedRecord ==
    pc = "dir_done" =>
        \A s \in DOMAIN entries :
            ~Excluded(s) =>
                /\ \E n \in Nodes :
                      /\ n.path = entries[s].path
                      /\ n.size >= entries[s].size
                      /\ n.acc_size >= entries[s].size
                /\ \A q \in ProperAncestors(entries[s].path) :
                      \E n \in Nodes : n.path = q /\ n.acc_size >= entries[s].size

\* C10 as amended: the same for every blob or tree record with a resolved,
\* non-ignored path.
C10_EveryEligibleRecord ==
    pc = "dir_done" =>
        \A s \in Eligible :
            /\ \E n \in Nodes :
                  /\ n.path = entries[s].path
                  /\ n.size >= entries[s].size
                  /\ n.acc_size >= entries[s].size
            /\ \A q \in ProperAncestors(entries[s].path) :
                  \E n \in Nodes : n.path = q /\ n.acc_size >= entries[s].size

\* A blob of positive size two levels below the root, next to a commit that
\* the traversal report lists with its sha1 only.
C10_Witness ==
    /\ pc = "dir_done"
    /\ \E s \in Eligible :
          /\ entries[s].size > 0
          /\ Cardinality(ProperAncestors(entries[s].path)) = 2
    /\ \E s \in DOMAIN entries :
          entries[s].type = "commit" /\ entries[s].path = <<>>

-----------------------------------------------------------------------------
(* Properties of parse_git_verify_pack, under SpecParse *)

\* C3: parsing never fails because a delta line names a base that no line of
\* the report has: it completes and returns the dictionary.
C3_ParseNeverFails == pc # "KeyError"

-----------------------------------------------------------------------------
(* Properties of make_file_extension_entries, under SpecExt *)

\* The buckets make_file_extension_entries returned.
Buckets == {result[i] : i \in 1..Len(result)}

\* The path-scope rule: no prefix, or the path is the prefix, or it starts
\* with the prefix and a "/".
Matches(p, prefix) ==
    \/ prefix = <<>>
    \/ p = prefix
    \/ StartsWith(p, prefix \o <<"/">>)

\* The records the extension report counts.
Contributing ==
    {s \in DOMAIN entries :
        /\ entries[s].type = "blob"
        /\ entries[s].path # None
        /\ entries[s].path \notin ignored_paths
        /\ Matches(entries[s].path, scope)}

\* The final component of a path: what follows its last "/".
FinalComponent(p) == SubSeq(p, RFind(p, "/") + 1, Len(p))

\* The extension as C4 states it: from the last "." of the final component,
\* empty when the component has none.
FromLastDot(p) ==
    LET c == FinalComponent(p)
        d == RFind(c, ".")
    IN IF d = 0 THEN <<>> ELSE SubSeq(c, d, Len(c))

\* The extension as C4 is amended: from the last "." of the final component
\* when a character other than "." precedes it in the component, else empty.
FromLastDotAfterName(p) ==
    LET c == FinalComponent(p)
        d == RFind(c, ".")
    IN IF \E k \in 1..(d - 1) : c[k] # "." THEN SubSeq(c, d, Len(c)) ELSE <<>>

\* C4 as stated: every counted record is in the bucket whose key is the part
\* of its final path component from the last "." on, the empty key when the
\* component has no ".".
C4_KeyFromLastDot ==
    pc = "ext_done" =>
        \A s \in Contributing :
            \E b \in Buckets :
                /\ entries[s].path \in b.files
                /\ b.extension = FromLastDot(entries[s].path)

\* C4 as amended: the key is that part when the last "." of the component has
\* a character other than "." before it in the component, and is empty
\* otherwise (".gitignore", "..", "a/." have the empty key).
C4_KeyFromLastDotAfterName ==
    pc = "ext_done" =>
        \A s \in Contributing :
            \E b \in Buckets :
                /\ entries[s].path \in b.files
                /\ b.extension = FromLastDotAfterName(entries[s].path)

\* A file with an extension and a dot file, each in its bucket.
C4_Witness ==
    /\ pc = "ext_done"
    /\ \E b \in Buckets : b.extension = <<".", "a">> /\ <<"a", ".", "a">> \in b.files
    /\ \E b \in Buckets : b.extension = <<>> /\ <<".", "a">> \in b.files

\* The counted records of a bucket.
Of(b) == {s \in Contributing : Splitext1(entries[s].path) = b.extension}

\* C9: a bucket's update count is the number of counted records with its key,
\* its sizes are the sums over them, and its files are their paths, so that a
\* path seen twice is one file and two updates.
C9_BucketContents ==
    pc = "ext_done" =>
        /\ \A b \in Buckets :
              /\ b.acc_updates = Cardinality(Of(b))
              /\ b.acc_size = SumField(Of(b), "size")
              /\ b.acc_pack_size = SumField(Of(b), "pack_size")
              /\ b.files = {entries[s].path : s \in Of(b)}
              /\ Cardinality(b.files) <= b.acc_updates
        /\ \A b1, b2 \in Buckets : b1.extension = b2.extension => b1 = b2
        /\ \A s \in Contributing : \E b \in Buckets : s \in Of(b)

\* Two blobs at one path with an extension: one file, two updates.
C9_Witness ==
    /\ pc = "ext_done"
    /\ \E b \in Buckets :
          /\ b.extension # <<>>
          /\ b.acc_updates = 2
          /\ Cardinality(b.files) = 1

=============================================================================
